---- MODULE Spec2Model ----
(***************************************************************************)
(* A model of termo_type's typing-test core: the per-word character        *)
(* tracker (src/test/input.rs), the test engine (src/test/engine.rs), the  *)
(* metrics (src/test/metrics.rs), the word generator (src/test/words.rs),  *)
(* the profile's best scores (src/profile/models.rs) and the application   *)
(* loop that drives them (src/app.rs, src/main.rs).                        *)
(*                                                                         *)
(* Five specifications share the variables:                                *)
(*   WordSpec  one WordState under arbitrary add_char / remove_char calls; *)
(*   Spec      one TestEngine under arbitrary calls of its public methods, *)
(*             with a clock that advances between the calls;               *)
(*   AppSpec   the application: run_app's loop handling key events and     *)
(*             poll timeouts;                                              *)
(*   ProfileSpec   one Profile under arbitrary update_score calls;         *)
(*   SequenceSpec  generate_word_sequence on arbitrary pools and counts.   *)
(*                                                                         *)
(* Time is counted in ticks of an abstract clock (Instant::now() reads     *)
(* `now`); f64 values are modelled by exact fractions.  A word is the      *)
(* sequence of its code points, as the code reads it (.chars()).           *)
(***************************************************************************)
EXTENDS Integers, Sequences, FiniteSets, TLC

VARIABLES
    engine,       \* the TestEngine (App.test_engine in AppSpec)
    now,          \* the clock read by Instant::now()
    running,      \* App.running
    current_tab,  \* App.current_tab
    test_mode,    \* App.test_mode
    profile,      \* App.profile
    ws,           \* WordSpec: the WordState under test
    hist,         \* observer, WordSpec and ProfileSpec: the calls made so far
    lastOp,       \* observer: the last operation called, with its input and result
    pre,          \* observer: engine and clock (AppSpec: and tab, profile) before the last operation
    runs,         \* observer, AppSpec: resets and mode switches made so far
    advances,     \* observer: next_word calls that acted since construction / reset
    perfect       \* observer: every such call found its word complete and all Correct

vars == <<engine, now, running, current_tab, test_mode, profile, ws, hist,
          lastOp, pre, runs, advances, perfect>>

appVars == <<running, current_tab, test_mode, profile>>
wordVars == <<ws, hist>>

----------------------------------------------------------------------------
(* Bounds of the model.                                                    *)

MaxWords == 2      \* longest word sequence handed to TestEngine::new in Spec
MaxCount == 2      \* largest count of a Words(count) mode in Spec
MaxSeconds == 1    \* the limit of the Time(seconds) mode in Spec
MaxTime == 2       \* the clock stops advancing here
MaxTyped == 3      \* type_char is not called once this many keystrokes were consumed
MaxIndex == 2      \* next_word is not called once current_word_index is this large
MaxOps == 6        \* WordSpec: calls made on one WordState

(* The application's numbers, scaled down: the model keeps their roles.    *)
TimeModeSeconds == 1    \* the 30 of Time(30): app.rs:92, models.rs:61, engine.rs:28
WordsModeCount == 1     \* the 30 of Words(30): app.rs:98, models.rs:74, engine.rs:33
TimeModeWordCount == 2  \* the 100 words generated for a time test: app.rs:39
MaxRuns == 1            \* AppSpec: resets and mode switches in one session
MaxAppTyped == 1        \* AppSpec: keystrokes consumed in one run
AppMaxTime == TimeModeSeconds + 1          \* AppSpec's clock stops here
AppMaxIndex == TimeModeWordCount + 1       \* AppSpec: no Space past this index

(* ProfileSpec and SequenceSpec.                                           *)
MaxWpm == 2             \* ProfileSpec: largest wpm of an offered score
MaxUpdates == 3         \* ProfileSpec: update_score calls on one profile
MaxPool == 2            \* SequenceSpec: longest pool handed to generate_word_sequence
MaxGenCount == 3        \* SequenceSpec: largest count asked of generate_word_sequence

(* MetricsSpec.                                                            *)
MaxChars == 4           \* MetricsSpec: largest correct / incorrect count
MaxElapsed == 3         \* MetricsSpec: largest elapsed time, in seconds

(* The characters a key press can carry and the words of the pool in Spec  *)
(* and AppSpec; WordSpec draws from the larger WordAlphabet and WordTargets *)
(* ("A" is there so that a comparison that folds case shows).              *)
Alphabet == {"a", "b"}
WordPool == {<<"a">>, <<"a", "b">>}
WordAlphabet == {"a", "b", "A"}
WordTargets == {<<>>, <<"a">>, <<"a", "b">>, <<"b", "a", "a">>, <<"A", "a">>}

----------------------------------------------------------------------------
(* Option<T>.                                                              *)

None == [some |-> FALSE]
Some(x) == [some |-> TRUE, val |-> x]

(* str.chars().count() and str.chars().nth(n) on a word held as its        *)
(* sequence of code points.                                                *)
chars_count(s) == Len(s)
chars_nth(s, n) == IF n + 1 \in 1..Len(s) THEN Some(s[n + 1]) ELSE None

----------------------------------------------------------------------------
(* src/test/input.rs: CharState and WordState.                             *)

CharState == {"Untyped", "Correct", "Incorrect"}

WordState_new(target) ==
    LET len == chars_count(target) IN
    [target |-> target,
     char_states |-> [i \in 1..len |-> "Untyped"],
     cursor_pos |-> 0]

(* Mutants of add_char: one that marks the position and leaves the cursor, *)
(* one that compares ignoring ASCII case.                                  *)
add_char_no_advance(w, ch) ==
    IF w.cursor_pos >= Len(w.char_states)
    THEN [ws |-> w, ret |-> FALSE]
    ELSE [ws |-> [w EXCEPT
                    !.char_states[w.cursor_pos + 1] =
                        IF ch = w.target[w.cursor_pos + 1] THEN "Correct" ELSE "Incorrect"],
          ret |-> TRUE]

to_ascii_lowercase(c) == IF c = "A" THEN "a" ELSE c

add_char_fold_case(w, ch) ==
    IF w.cursor_pos >= Len(w.char_states)
    THEN [ws |-> w, ret |-> FALSE]
    ELSE [ws |-> [w EXCEPT
                    !.char_states[w.cursor_pos + 1] =
                        IF to_ascii_lowercase(ch) = to_ascii_lowercase(w.target[w.cursor_pos + 1])
                        THEN "Correct" ELSE "Incorrect",
                    !.cursor_pos = @ + 1],
          ret |-> TRUE]

(* add_char returns the bool; the model returns it beside the new state.   *)
add_char(w, ch) ==
    IF w.cursor_pos >= Len(w.char_states)
    THEN [ws |-> w, ret |-> FALSE]
    ELSE LET target_char == chars_nth(w.target, w.cursor_pos) IN
         IF target_char.some
         THEN [ws |-> [w EXCEPT
                         !.char_states[w.cursor_pos + 1] =
                             IF ch = target_char.val THEN "Correct" ELSE "Incorrect",
                         !.cursor_pos = @ + 1],
               ret |-> TRUE]
         ELSE [ws |-> w, ret |-> FALSE]

(* Mutant of remove_char: the cursor moves back, the position keeps its   *)
(* state.                                                                  *)
remove_char_keep_state(w) ==
    IF w.cursor_pos > 0
    THEN [ws |-> [w EXCEPT !.cursor_pos = @ - 1], ret |-> TRUE]
    ELSE [ws |-> w, ret |-> FALSE]

(* Mutant of remove_char: the whole word is cleared. *)
remove_char_clear_word(w) ==
    IF w.cursor_pos > 0
    THEN [ws |-> [w EXCEPT !.cursor_pos = 0,
                           !.char_states = [i \in DOMAIN @ |-> "Untyped"]],
          ret |-> TRUE]
    ELSE [ws |-> w, ret |-> FALSE]

remove_char(w) ==
    IF w.cursor_pos > 0
    THEN [ws |-> [w EXCEPT !.cursor_pos = @ - 1,
                           !.char_states[w.cursor_pos] = "Untyped"],
          ret |-> TRUE]
    ELSE [ws |-> w, ret |-> FALSE]

is_complete(w) == w.cursor_pos >= Len(w.char_states)

has_errors(w) == \E i \in DOMAIN w.char_states : w.char_states[i] = "Incorrect"

correct_count(w) ==
    Cardinality({i \in DOMAIN w.char_states : w.char_states[i] = "Correct"})

incorrect_count(w) ==
    Cardinality({i \in DOMAIN w.char_states : w.char_states[i] = "Incorrect"})

----------------------------------------------------------------------------
(* src/test/metrics.rs. An f64 is an exact fraction [num, den] in lowest   *)
(* terms with den > 0, so that equal values are equal records.             *)

RECURSIVE Gcd(_, _)
Gcd(a, b) == IF b = 0 THEN a ELSE Gcd(b, a % b)

Frac(n, d) ==
    LET g == Gcd(n, d) IN
    IF n = 0 THEN [num |-> 0, den |-> 1] ELSE [num |-> n \div g, den |-> d \div g]

FracInt(n) == [num |-> n, den |-> 1]

(* Mutant of calculate_wpm: a word of four characters. *)
calculate_wpm_word_of_four(chars_typed, time_sec) ==
    IF time_sec <= 0 THEN FracInt(0) ELSE Frac(chars_typed * 60, 4 * time_sec)

(* words = chars / 5, minutes = secs / 60, words / minutes. *)
calculate_wpm(chars_typed, time_sec) ==
    IF time_sec <= 0 THEN FracInt(0) ELSE Frac(chars_typed * 60, 5 * time_sec)

calculate_cpm(chars_typed, time_sec) ==
    IF time_sec <= 0 THEN FracInt(0) ELSE Frac(chars_typed * 60, time_sec)

calculate_accuracy(correct, total) ==
    IF total = 0 THEN FracInt(100) ELSE Frac(correct * 100, total)

TestMetrics_calculate(correct_chars, incorrect_chars, elapsed) ==
    LET total_chars == correct_chars + incorrect_chars IN
    [wpm |-> calculate_wpm(correct_chars, elapsed),
     cpm |-> calculate_cpm(correct_chars, elapsed),
     accuracy |-> calculate_accuracy(correct_chars, total_chars)]

----------------------------------------------------------------------------
(* src/test/engine.rs: TestState, TestMode and TestEngine.                 *)

TestState == {"NotStarted", "InProgress", "Finished"}

Time(seconds) == [kind |-> "Time", n |-> seconds]
Words(count) == [kind |-> "Words", n |-> count]

(* words.first(), words.get(i) *)
first(words) == IF Len(words) > 0 THEN Some(words[1]) ELSE None
get(words, i) == IF i + 1 \in 1..Len(words) THEN Some(words[i + 1]) ELSE None

(* Option::map(|w| WordState::new(w.clone())) *)
map_new(o) == IF o.some THEN Some(WordState_new(o.val)) ELSE None

TestEngine_new(mode, words) ==
    [state |-> "NotStarted",
     mode |-> mode,
     words |-> words,
     current_word_index |-> 0,
     current_word_state |-> map_new(first(words)),
     start_time |-> None,
     end_time |-> None,
     total_chars_typed |-> 0,
     correct_chars |-> 0,
     incorrect_chars |-> 0,
     result_saved |-> FALSE]

(* Each method takes the engine and the instant Instant::now() would read, *)
(* and returns the engine it leaves.                                       *)
(* Mutant of start: no check of the state. *)
start_unguarded(e, t) ==
    [e EXCEPT !.state = "InProgress", !.start_time = Some(t)]

start(e, t) ==
    IF e.state = "NotStarted"
    THEN [e EXCEPT !.state = "InProgress", !.start_time = Some(t)]
    ELSE e

(* Mutant of finish: no check of the state. *)
finish_unguarded(e, t) ==
    [e EXCEPT !.state = "Finished", !.end_time = Some(t)]

finish(e, t) ==
    IF e.state = "InProgress"
    THEN [e EXCEPT !.state = "Finished", !.end_time = Some(t)]
    ELSE e

(* Instant::duration_since saturates at zero. *)
duration_since(end, start_) == IF end >= start_ THEN end - start_ ELSE 0

(* Mutant of elapsed_seconds: the end timestamp is not read. *)
elapsed_seconds_live(e, t) ==
    IF e.start_time.some THEN duration_since(t, e.start_time.val) ELSE 0

elapsed_seconds(e, t) ==
    IF e.start_time.some
    THEN LET end == IF e.end_time.some THEN e.end_time.val ELSE t IN
         duration_since(end, e.start_time.val)
    ELSE 0

current_word(e) == get(e.words, e.current_word_index)

(* Mutant of should_auto_finish: a Words mode never finishes by itself. *)
should_auto_finish_time_only(e, t) ==
    IF e.mode.kind = "Time"
    THEN elapsed_seconds(e, t) >= e.mode.n
    ELSE FALSE

(* Mutant of should_auto_finish: > where the code has >=. *)
should_auto_finish_strict(e, t) ==
    IF e.mode.kind = "Time"
    THEN elapsed_seconds(e, t) > e.mode.n
    ELSE e.current_word_index > e.mode.n

should_auto_finish(e, t) ==
    IF e.mode.kind = "Time"
    THEN elapsed_seconds(e, t) >= e.mode.n
    ELSE e.current_word_index >= e.mode.n

(* Mutant of type_char: a character marked Correct is added to             *)
(* correct_chars at once, an Incorrect one to incorrect_chars.             *)
type_char_counts_live(e, ch, t) ==
    LET e1 == IF e.state = "NotStarted" THEN start(e, t) ELSE e IN
    IF e1.state # "InProgress" THEN e1
    ELSE IF e1.current_word_state.some
         THEN LET r == add_char(e1.current_word_state.val, ch)
                  hit == r.ret /\ r.ws.char_states[r.ws.cursor_pos] = "Correct"
                  miss == r.ret /\ ~hit
              IN [e1 EXCEPT !.current_word_state = Some(r.ws),
                            !.total_chars_typed = IF r.ret THEN @ + 1 ELSE @,
                            !.correct_chars = IF hit THEN @ + 1 ELSE @,
                            !.incorrect_chars = IF miss THEN @ + 1 ELSE @]
         ELSE e1

(* Mutants of type_char: one counts every keystroke, consumed or not; one  *)
(* returns after the auto-start, dropping the first keystroke.             *)
type_char_counts_every_key(e, ch, t) ==
    LET e1 == IF e.state = "NotStarted" THEN start(e, t) ELSE e IN
    IF e1.state # "InProgress" THEN e1
    ELSE IF e1.current_word_state.some
         THEN LET r == add_char(e1.current_word_state.val, ch) IN
              [e1 EXCEPT !.current_word_state = Some(r.ws),
                         !.total_chars_typed = @ + 1]
         ELSE e1

type_char_start_only(e, ch, t) ==
    IF e.state = "NotStarted" THEN start(e, t)
    ELSE IF e.state # "InProgress" THEN e
    ELSE IF e.current_word_state.some
         THEN LET r == add_char(e.current_word_state.val, ch) IN
              [e EXCEPT !.current_word_state = Some(r.ws),
                        !.total_chars_typed = IF r.ret THEN @ + 1 ELSE @]
         ELSE e

type_char(e, ch, t) ==
    LET e1 == IF e.state = "NotStarted" THEN start(e, t) ELSE e IN
    IF e1.state # "InProgress" THEN e1
    ELSE IF e1.current_word_state.some
         THEN LET r == add_char(e1.current_word_state.val, ch) IN
              [e1 EXCEPT !.current_word_state = Some(r.ws),
                         !.total_chars_typed = IF r.ret THEN @ + 1 ELSE @]
         ELSE e1

(* Mutant of backspace: a removed character is taken off the keystroke     *)
(* counter.                                                                *)
backspace_uncounts(e) ==
    IF e.state # "InProgress" THEN e
    ELSE IF e.current_word_state.some
         THEN LET r == remove_char(e.current_word_state.val) IN
              [e EXCEPT !.current_word_state = Some(r.ws),
                        !.total_chars_typed = IF r.ret THEN @ - 1 ELSE @]
         ELSE e

(* Mutant of backspace: no check of the state. *)
backspace_any_state(e) ==
    IF e.current_word_state.some
    THEN [e EXCEPT !.current_word_state = Some(remove_char(@.val).ws)]
    ELSE e

backspace(e) ==
    IF e.state # "InProgress" THEN e
    ELSE IF e.current_word_state.some
         THEN [e EXCEPT !.current_word_state = Some(remove_char(@.val).ws)]
         ELSE e

(* Mutants of next_word: one without the check of the state; one that      *)
(* counts every typed position as correct; one that keeps the tracker of   *)
(* the word it leaves when a next word exists.                             *)
next_word_any_state(e, t) ==
    LET e1 == IF e.current_word_state.some
              THEN [e EXCEPT
                      !.correct_chars = @ + correct_count(e.current_word_state.val),
                      !.incorrect_chars = @ + incorrect_count(e.current_word_state.val)]
              ELSE e
        e2 == [e1 EXCEPT !.current_word_index = @ + 1]
        e3 == [e2 EXCEPT !.current_word_state = map_new(get(e2.words, e2.current_word_index))]
    IN IF should_auto_finish(e3, t) THEN finish(e3, t) ELSE e3

next_word_counts_cursor(e, t) ==
    IF e.state # "InProgress" THEN e
    ELSE LET e1 == IF e.current_word_state.some
                   THEN [e EXCEPT
                           !.correct_chars = @ + e.current_word_state.val.cursor_pos]
                   ELSE e
             e2 == [e1 EXCEPT !.current_word_index = @ + 1]
             e3 == [e2 EXCEPT !.current_word_state = map_new(get(e2.words, e2.current_word_index))]
         IN IF should_auto_finish(e3, t) THEN finish(e3, t) ELSE e3

next_word_keeps_tracker(e, t) ==
    IF e.state # "InProgress" THEN e
    ELSE LET e1 == IF e.current_word_state.some
                   THEN [e EXCEPT
                           !.correct_chars = @ + correct_count(e.current_word_state.val),
                           !.incorrect_chars = @ + incorrect_count(e.current_word_state.val)]
                   ELSE e
             e2 == [e1 EXCEPT !.current_word_index = @ + 1]
             e3 == IF get(e2.words, e2.current_word_index).some
                   THEN e2
                   ELSE [e2 EXCEPT !.current_word_state = None]
         IN IF should_auto_finish(e3, t) THEN finish(e3, t) ELSE e3

(* Mutant of next_word: the whole length of the word is counted correct.   *)
next_word_counts_word_length(e, t) ==
    IF e.state # "InProgress" THEN e
    ELSE LET e1 == IF e.current_word_state.some
                   THEN [e EXCEPT
                           !.correct_chars = @ + Len(e.current_word_state.val.target)]
                   ELSE e
             e2 == [e1 EXCEPT !.current_word_index = @ + 1]
             e3 == [e2 EXCEPT !.current_word_state = map_new(get(e2.words, e2.current_word_index))]
         IN IF should_auto_finish(e3, t) THEN finish(e3, t) ELSE e3

next_word(e, t) ==
    IF e.state # "InProgress" THEN e
    ELSE LET e1 == IF e.current_word_state.some
                   THEN [e EXCEPT
                           !.correct_chars = @ + correct_count(e.current_word_state.val),
                           !.incorrect_chars = @ + incorrect_count(e.current_word_state.val)]
                   ELSE e
             e2 == [e1 EXCEPT !.current_word_index = @ + 1]
             e3 == [e2 EXCEPT !.current_word_state = map_new(get(e2.words, e2.current_word_index))]
         IN IF should_auto_finish(e3, t) THEN finish(e3, t) ELSE e3

get_metrics(e, t) ==
    TestMetrics_calculate(e.correct_chars, e.incorrect_chars, elapsed_seconds(e, t))

(* Mutants of reset: one starts over on the words in reverse order; one    *)
(* keeps the start timestamp.                                              *)
reset_new_sequence(e) ==
    TestEngine_new(e.mode, [i \in 1..Len(e.words) |-> e.words[Len(e.words) + 1 - i]])

reset_keeps_start(e) ==
    [e EXCEPT !.state = "NotStarted",
              !.current_word_index = 0,
              !.current_word_state = map_new(first(e.words)),
              !.end_time = None,
              !.total_chars_typed = 0,
              !.correct_chars = 0,
              !.incorrect_chars = 0,
              !.result_saved = FALSE]

(* Mutant of reset: the keystroke counter is kept. *)
reset_keeps_total(e) ==
    [e EXCEPT !.state = "NotStarted",
              !.current_word_index = 0,
              !.current_word_state = map_new(first(e.words)),
              !.start_time = None,
              !.end_time = None,
              !.correct_chars = 0,
              !.incorrect_chars = 0,
              !.result_saved = FALSE]

reset(e) ==
    [e EXCEPT !.state = "NotStarted",
              !.current_word_index = 0,
              !.current_word_state = map_new(first(e.words)),
              !.start_time = None,
              !.end_time = None,
              !.total_chars_typed = 0,
              !.correct_chars = 0,
              !.incorrect_chars = 0,
              !.result_saved = FALSE]

----------------------------------------------------------------------------
(* Spec: one engine, built by TestEngine::new from any mode and any word   *)
(* sequence of the bounds, then driven by any calls of its methods.        *)

RECURSIVE SeqsUpTo(_, _)
SeqsUpTo(S, n) ==
    IF n = 0 THEN {<<>>}
    ELSE LET shorter == SeqsUpTo(S, n - 1) IN
         shorter \cup {Append(s, x) : s \in {q \in shorter : Len(q) = n - 1}, x \in S}

Modes == {Time(MaxSeconds)} \cup {Words(c) : c \in 0..MaxCount}

NoOp == [op |-> "new"]

(* A call that leaves engine e2, with the observers' update; the          *)
(* application and the lone WordState are not part of this specification.  *)
Observe(op, e2) ==
    /\ engine' = e2
    /\ lastOp' = op
    /\ pre' = [engine |-> engine, now |-> now]
    /\ UNCHANGED <<appVars, wordVars, runs>>

EngineInit ==
    /\ \E mode \in Modes, words \in SeqsUpTo(WordPool, MaxWords) :
          engine = TestEngine_new(mode, words)
    /\ now = 0
    /\ lastOp = NoOp
    /\ pre = [engine |-> engine, now |-> now]
    /\ advances = 0
    /\ perfect = TRUE
    /\ runs = 0

AppIdle ==
    /\ running = TRUE
    /\ current_tab = "Test"
    /\ test_mode = engine.mode
    /\ profile = [best_30_seconds |-> None, best_30_words |-> None]

WordIdle ==
    /\ ws = WordState_new(<<>>)
    /\ hist = <<>>

Init == EngineInit /\ AppIdle /\ WordIdle

Tick ==
    /\ now < MaxTime
    /\ now' = now + 1
    /\ Observe([op |-> "tick"], engine)
    /\ UNCHANGED <<advances, perfect>>

Start ==
    /\ Observe([op |-> "start"], start(engine, now))
    /\ UNCHANGED <<now, advances, perfect>>

Finish ==
    /\ Observe([op |-> "finish"], finish(engine, now))
    /\ UNCHANGED <<now, advances, perfect>>

TypeChar(ch) ==
    /\ engine.total_chars_typed < MaxTyped
    /\ Observe([op |-> "type_char", ch |-> ch], type_char(engine, ch, now))
    /\ UNCHANGED <<now, advances, perfect>>

Backspace ==
    /\ Observe([op |-> "backspace"], backspace(engine))
    /\ UNCHANGED <<now, advances, perfect>>

(* The observers of a next_word call made on engine e. *)
ObserveAdvance(e) ==
    IF e.state = "InProgress"
    THEN /\ advances' = advances + 1
         /\ perfect' = (/\ perfect
                        /\ e.current_word_state.some
                        /\ is_complete(e.current_word_state.val)
                        /\ ~has_errors(e.current_word_state.val))
    ELSE UNCHANGED <<advances, perfect>>

NextWord ==
    /\ engine.current_word_index < MaxIndex
    /\ Observe([op |-> "next_word"], next_word(engine, now))
    /\ ObserveAdvance(engine)
    /\ UNCHANGED now

Reset ==
    /\ Observe([op |-> "reset"], reset(engine))
    /\ advances' = 0
    /\ perfect' = TRUE
    /\ UNCHANGED now

Next ==
    \/ Tick
    \/ Start
    \/ Finish
    \/ \E ch \in Alphabet : TypeChar(ch)
    \/ Backspace
    \/ NextWord
    \/ Reset

Spec == Init /\ [][Next]_vars

----------------------------------------------------------------------------
(* src/test/words.rs. The word file is what the disk holds when load_words *)
(* reads it; FALLBACK_WORDS stands for the hundred built-in words, cut to  *)
(* one so that AppSpec stays small.                                        *)

FALLBACK_WORDS == <<(<<"a", "b">>)>>

WordFiles ==
    {[kind |-> "missing"],
     [kind |-> "malformed"],
     [kind |-> "list", words |-> <<>>],
     [kind |-> "list", words |-> <<(<<"b">>)>>]}

Ok(x) == [ok |-> TRUE, val |-> x]
Err == [ok |-> FALSE]

(* Mutant of load_words_from_file: an empty list is returned as it is. *)
load_words_from_file_any_list(file) ==
    IF file.kind = "missing" THEN Err
    ELSE IF file.kind = "malformed" THEN Err
    ELSE Ok(file.words)

load_words_from_file(file) ==
    IF file.kind = "missing" THEN Err
    ELSE IF file.kind = "malformed" THEN Err
    ELSE IF file.words = <<>> THEN Err
    ELSE Ok(file.words)

load_words(file) ==
    LET r == load_words_from_file(file) IN
    IF r.ok THEN r.val ELSE FALLBACK_WORDS

Range(f) == {f[i] : i \in DOMAIN f}

(* Mutant of generate_word_sequence: a choice may push nothing. *)
generate_word_sequence_may_skip(count, words) ==
    IF words = <<>> THEN {<<>>}
    ELSE SeqsUpTo(Range(words), count)

(* Every sequence the random choices can produce. *)
generate_word_sequence(count, words) ==
    IF words = <<>> THEN {<<>>}
    ELSE {seq \in SeqsUpTo(Range(words), count) : Len(seq) = count}

----------------------------------------------------------------------------
(* src/profile/models.rs.                                                  *)

FracGt(a, b) == a.num * b.den > b.num * a.den

BestScore_new(wpm, cpm, accuracy, t) ==
    [wpm |-> wpm, cpm |-> cpm, accuracy |-> accuracy, timestamp |-> t]

(* Mutant of is_better_than: >= where the code has >. *)
is_better_or_equal(score, other) == ~FracGt(other.wpm, score.wpm)

is_better_than(score, other) == FracGt(score.wpm, other.wpm)

Profile_new == [best_30_seconds |-> None, best_30_words |-> None]

(* Mutant of update_score: every Time mode is stored as the 30 s best. *)
update_score_any_time(p, mode, score) ==
    IF mode.kind = "Time"
    THEN IF p.best_30_seconds.some
         THEN IF is_better_than(score, p.best_30_seconds.val)
              THEN [profile |-> [p EXCEPT !.best_30_seconds = Some(score)], ret |-> TRUE]
              ELSE [profile |-> p, ret |-> FALSE]
         ELSE [profile |-> [p EXCEPT !.best_30_seconds = Some(score)], ret |-> TRUE]
    ELSE IF mode = Words(WordsModeCount)
    THEN IF p.best_30_words.some
         THEN IF is_better_than(score, p.best_30_words.val)
              THEN [profile |-> [p EXCEPT !.best_30_words = Some(score)], ret |-> TRUE]
              ELSE [profile |-> p, ret |-> FALSE]
         ELSE [profile |-> [p EXCEPT !.best_30_words = Some(score)], ret |-> TRUE]
    ELSE [profile |-> p, ret |-> FALSE]

(* update_score returns the bool; the model returns it beside the profile. *)
update_score(p, mode, score) ==
    IF mode = Time(TimeModeSeconds)
    THEN IF p.best_30_seconds.some
         THEN IF is_better_than(score, p.best_30_seconds.val)
              THEN [profile |-> [p EXCEPT !.best_30_seconds = Some(score)], ret |-> TRUE]
              ELSE [profile |-> p, ret |-> FALSE]
         ELSE [profile |-> [p EXCEPT !.best_30_seconds = Some(score)], ret |-> TRUE]
    ELSE IF mode = Words(WordsModeCount)
    THEN IF p.best_30_words.some
         THEN IF is_better_than(score, p.best_30_words.val)
              THEN [profile |-> [p EXCEPT !.best_30_words = Some(score)], ret |-> TRUE]
              ELSE [profile |-> p, ret |-> FALSE]
         ELSE [profile |-> [p EXCEPT !.best_30_words = Some(score)], ret |-> TRUE]
    ELSE [profile |-> p, ret |-> FALSE]

----------------------------------------------------------------------------
(* src/app.rs. The App is the record [test_engine, test_mode, profile];    *)
(* running and current_tab are handled by the actions.                     *)

(* Mutant of init_test: the engine is always built for the time mode. *)
init_test_time_only(mode) ==
    {TestEngine_new(Time(TimeModeSeconds), test_words) :
        test_words \in UNION {generate_word_sequence(TimeModeWordCount, load_words(file)) :
                                 file \in WordFiles}}

(* Every engine init_test can install for a mode. *)
init_test(mode) ==
    LET word_count == IF mode.kind = "Words" THEN mode.n ELSE TimeModeWordCount IN
    {TestEngine_new(mode, test_words) :
        test_words \in UNION {generate_word_sequence(word_count, load_words(file)) :
                                 file \in WordFiles}}

reset_test(e) == reset(e)

(* Mutant of save_test_result: the score is offered under the default      *)
(* mode, not under the mode played.                                        *)
save_test_result_default_mode(e, mode, p, t) ==
    IF e.state = "Finished" /\ ~e.result_saved
    THEN LET metrics == get_metrics(e, t)
             score == BestScore_new(metrics.wpm, metrics.cpm, metrics.accuracy, t)
             u == update_score(p, Time(TimeModeSeconds), score)
         IN [engine |-> [e EXCEPT !.result_saved = TRUE],
             profile |-> u.profile,
             offered |-> TRUE,
             ret |-> u.ret]
    ELSE [engine |-> e, profile |-> p, offered |-> FALSE, ret |-> FALSE]

(* Mutant of save_test_result: result_saved is neither read nor set. *)
save_test_result_unflagged(e, mode, p, t) ==
    IF e.state = "Finished"
    THEN LET metrics == get_metrics(e, t)
             score == BestScore_new(metrics.wpm, metrics.cpm, metrics.accuracy, t)
             u == update_score(p, mode, score)
         IN [engine |-> e, profile |-> u.profile, offered |-> TRUE, ret |-> u.ret]
    ELSE [engine |-> e, profile |-> p, offered |-> FALSE, ret |-> FALSE]

(* save_test_result on engine e at instant t: the engine and the profile   *)
(* it leaves, whether update_score was called, and the bool returned.      *)
save_test_result(e, mode, p, t) ==
    IF e.state = "Finished" /\ ~e.result_saved
    THEN LET metrics == get_metrics(e, t)
             score == BestScore_new(metrics.wpm, metrics.cpm, metrics.accuracy, t)
             u == update_score(p, mode, score)
         IN [engine |-> [e EXCEPT !.result_saved = TRUE],
             profile |-> u.profile,
             offered |-> TRUE,
             ret |-> u.ret]
    ELSE [engine |-> e, profile |-> p, offered |-> FALSE, ret |-> FALSE]

Tab_next(tab) ==
    CASE tab = "Test" -> "Stats"
      [] tab = "Stats" -> "Options"
      [] tab = "Options" -> "Test"

Tab_prev(tab) ==
    CASE tab = "Test" -> "Options"
      [] tab = "Stats" -> "Test"
      [] tab = "Options" -> "Stats"

----------------------------------------------------------------------------
(* src/main.rs: run_app. AppSpec starts after App::new and init_test       *)
(* (main.rs:29-30), so the engine is always present. One action is one     *)
(* turn of the loop: a poll that times out, or one key press handled to    *)
(* the end. A tick of the clock is one poll interval.                      *)

(* The profiles load_profile may find on disk. *)
StoredProfiles ==
    {Profile_new,
     [best_30_seconds |-> Some(BestScore_new(FracInt(24), FracInt(120), FracInt(100), 0)),
      best_30_words |-> None]}

AppInit ==
    /\ running = TRUE
    /\ current_tab = "Test"
    /\ test_mode = Time(TimeModeSeconds)
    /\ profile \in StoredProfiles
    /\ engine \in init_test(test_mode)
    /\ now = 0
    /\ lastOp = NoOp
    /\ pre = [engine |-> engine, now |-> now, tab |-> current_tab,
             profile |-> profile]
    /\ advances = 0
    /\ perfect = TRUE
    /\ runs = 0
    /\ WordIdle

(* Mutant of test_tab_key: Enter resets at once, before the check and the  *)
(* hand-off.                                                               *)
test_tab_key_reset_first(e, mode, p, k, t) ==
    LET e1 == IF k.code = "Char"
              THEN IF k.ch = " " THEN next_word(e, t) ELSE type_char(e, k.ch, t)
              ELSE IF k.code = "Backspace" THEN backspace(e)
              ELSE IF k.code = "Enter" THEN reset_test(e)
              ELSE e
        was_in_progress == (e1.state = "InProgress")
        e2 == IF should_auto_finish(e1, t) /\ was_in_progress THEN finish(e1, t) ELSE e1
        s == IF e2.state = "Finished"
             THEN save_test_result(e2, mode, p, t)
             ELSE [engine |-> e2, profile |-> p, offered |-> FALSE, ret |-> FALSE]
    IN s

(* Mutant of test_tab_key: the handler without its own auto-finish check   *)
(* (main.rs:121-125).                                                      *)
test_tab_key_unchecked(e, mode, p, k, t) ==
    LET should_reset == (k.code = "Enter")
        e1 == IF k.code = "Char"
              THEN IF k.ch = " " THEN next_word(e, t) ELSE type_char(e, k.ch, t)
              ELSE IF k.code = "Backspace" THEN backspace(e)
              ELSE e
        s == IF e1.state = "Finished"
             THEN save_test_result(e1, mode, p, t)
             ELSE [engine |-> e1, profile |-> p, offered |-> FALSE, ret |-> FALSE]
    IN [engine |-> IF should_reset THEN reset_test(s.engine) ELSE s.engine,
        profile |-> s.profile,
        offered |-> s.offered,
        ret |-> s.ret]

(* The Test tab's part of the handler (main.rs:98-140) for key k: the      *)
(* engine call, the auto-finish check, the hand-off of the result, the     *)
(* reset.                                                                  *)
test_tab_key(e, mode, p, k, t) ==
    LET should_reset == (k.code = "Enter")
        e1 == IF k.code = "Char"
              THEN IF k.ch = " " THEN next_word(e, t) ELSE type_char(e, k.ch, t)
              ELSE IF k.code = "Backspace" THEN backspace(e)
              ELSE e
        was_in_progress == (e1.state = "InProgress")
        e2 == IF should_auto_finish(e1, t) /\ was_in_progress THEN finish(e1, t) ELSE e1
        s == IF e2.state = "Finished"
             THEN save_test_result(e2, mode, p, t)
             ELSE [engine |-> e2, profile |-> p, offered |-> FALSE, ret |-> FALSE]
    IN [engine |-> IF should_reset THEN reset_test(s.engine) ELSE s.engine,
        profile |-> s.profile,
        offered |-> s.offered,
        ret |-> s.ret]

(* The observers of a key press that is not handled on the Test tab: the  *)
(* kind of key is kept, not the key.                                       *)
ObserveKey(kind) ==
    /\ lastOp' = [op |-> kind]
    /\ pre' = [engine |-> engine, now |-> now, tab |-> current_tab,
             profile |-> profile]
    /\ UNCHANGED <<now, wordVars>>

(* No event within the poll interval: the loop draws and polls again. *)
PollTimeout ==
    /\ running
    /\ now < AppMaxTime
    /\ now' = now + 1
    /\ lastOp' = [op |-> "poll_timeout"]
    /\ pre' = [engine |-> engine, now |-> now, tab |-> current_tab,
             profile |-> profile]
    /\ UNCHANGED <<engine, appVars, wordVars, runs, advances, perfect>>

KeyQuit ==
    /\ running
    /\ running' = FALSE
    /\ ObserveKey("quit")
    /\ UNCHANGED <<engine, current_tab, test_mode, profile, runs, advances, perfect>>

KeyTab ==
    /\ running
    /\ current_tab' = Tab_next(current_tab)
    /\ ObserveKey("switch_tab")
    /\ UNCHANGED <<engine, running, test_mode, profile, runs, advances, perfect>>

KeyBackTab ==
    /\ running
    /\ current_tab' = Tab_prev(current_tab)
    /\ ObserveKey("switch_tab")
    /\ UNCHANGED <<engine, running, test_mode, profile, runs, advances, perfect>>

KeyDigit(d) ==
    /\ running
    /\ current_tab' = (CASE d = "1" -> "Test" [] d = "2" -> "Stats" [] d = "3" -> "Options")
    /\ ObserveKey("switch_tab")
    /\ UNCHANGED <<engine, running, test_mode, profile, runs, advances, perfect>>

(* A key press on the Test tab. *)
TestTabKey(k) ==
    /\ running
    /\ current_tab = "Test"
    /\ (k.code = "Char" /\ k.ch # " ") => engine.total_chars_typed < MaxAppTyped
    /\ k.code = "Enter" => runs < MaxRuns
    /\ (k.code = "Char" /\ k.ch = " ") => engine.current_word_index < AppMaxIndex
    /\ LET r == test_tab_key(engine, test_mode, profile, k, now) IN
         /\ engine' = r.engine
         /\ profile' = r.profile
         /\ lastOp' = [op |-> "test_key", key |-> k,
                        offered |-> r.offered, ret |-> r.ret]
    /\ pre' = [engine |-> engine, now |-> now, tab |-> current_tab,
             profile |-> profile]
    /\ IF k.code = "Enter"
       THEN advances' = 0 /\ perfect' = TRUE /\ runs' = runs + 1
       ELSE IF k.code = "Char" /\ k.ch = " "
       THEN ObserveAdvance(engine) /\ UNCHANGED runs
       ELSE UNCHANGED <<advances, perfect, runs>>
    /\ UNCHANGED <<now, running, current_tab, test_mode, wordVars>>

(* 't' or 'w' on the Options tab: set_time_mode / set_words_mode. *)
OptionsTabKey(ch) ==
    /\ running
    /\ current_tab = "Options"
    /\ runs < MaxRuns
    /\ runs' = runs + 1
    /\ test_mode' = IF ch = "t" THEN Time(TimeModeSeconds) ELSE Words(WordsModeCount)
    /\ engine' \in init_test(test_mode')
    /\ advances' = 0
    /\ perfect' = TRUE
    /\ lastOp' = [op |-> "switch_mode", ch |-> ch]
    /\ pre' = [engine |-> engine, now |-> now, tab |-> current_tab,
             profile |-> profile]
    /\ UNCHANGED <<now, wordVars>>
    /\ UNCHANGED <<running, current_tab, profile>>

(* A key press with no binding on the current tab, on the Stats or the     *)
(* Options tab. *)
UnboundKey ==
    /\ running
    /\ current_tab # "Test"
    /\ ObserveKey("unbound_key")
    /\ UNCHANGED <<engine, appVars, runs, advances, perfect>>

TestKeys ==
    {[code |-> "Char", ch |-> ch] : ch \in Alphabet \cup {" "}}
        \cup {[code |-> "Backspace"], [code |-> "Enter"], [code |-> "Other"]}

AppNext ==
    \/ PollTimeout
    \/ KeyQuit
    \/ KeyTab
    \/ KeyBackTab
    \/ \E d \in {"1", "2", "3"} : KeyDigit(d)
    \/ \E k \in TestKeys : TestTabKey(k)
    \/ \E ch \in {"t", "w"} : OptionsTabKey(ch)
    \/ UnboundKey

AppSpec == AppInit /\ [][AppNext]_vars

----------------------------------------------------------------------------
(* WordSpec: one WordState, built by WordState::new from any target of     *)
(* WordTargets, then driven by any add_char and remove_char calls. hist    *)
(* keeps each call with its argument and its result, pre the WordState     *)
(* before the last call.                                                   *)

WordInit ==
    /\ \E target \in WordTargets : ws = WordState_new(target)
    /\ hist = <<>>
    /\ lastOp = NoOp
    /\ pre = [ws |-> ws]
    /\ engine = TestEngine_new(Time(MaxSeconds), <<>>)
    /\ now = 0
    /\ advances = 0
    /\ perfect = TRUE
    /\ runs = 0
    /\ AppIdle

ObserveWord(call, w2) ==
    /\ ws' = w2
    /\ hist' = Append(hist, call)
    /\ lastOp' = call
    /\ pre' = [ws |-> ws]
    /\ UNCHANGED <<engine, now, runs, advances, perfect, appVars>>

AddChar(ch) ==
    /\ Len(hist) < MaxOps
    /\ LET r == add_char(ws, ch) IN
       ObserveWord([op |-> "add_char", ch |-> ch, ret |-> r.ret], r.ws)

RemoveChar ==
    /\ Len(hist) < MaxOps
    /\ LET r == remove_char(ws) IN
       ObserveWord([op |-> "remove_char", ret |-> r.ret], r.ws)

WordNext ==
    \/ \E ch \in WordAlphabet : AddChar(ch)
    \/ RemoveChar

WordSpec == WordInit /\ [][WordNext]_vars

----------------------------------------------------------------------------
(* Claims about WordState, checked under WordSpec.                         *)

(* The cursor/state consistency of one WordState. *)
WordStateConsistent(w) ==
    /\ Len(w.char_states) = chars_count(w.target)
    /\ 0 <= w.cursor_pos
    /\ w.cursor_pos <= Len(w.char_states)
    /\ w.cursor_pos =
          Cardinality({i \in DOMAIN w.char_states : w.char_states[i] # "Untyped"})
    /\ \A i \in DOMAIN w.char_states :
          IF i - 1 < w.cursor_pos
          THEN w.char_states[i] \in {"Correct", "Incorrect"}
          ELSE w.char_states[i] = "Untyped"

(* C2: after any sequence of add_char and remove_char calls on a WordState, *)
(* 0 <= cursor_pos <= length, cursor_pos is the number of entries that are *)
(* not Untyped, every index below the cursor is Correct or Incorrect and   *)
(* every index from the cursor on is Untyped.                              *)
C2_CursorCountsTypedEntries == WordStateConsistent(ws)

(* C2's case: a three-letter word with one letter typed wrongly and kept,  *)
(* after a later letter was typed and removed again.                       *)
C2_Witness ==
    /\ Len(ws.char_states) = 3
    /\ ws.cursor_pos = 1
    /\ ws.char_states[1] = "Incorrect"
    /\ lastOp.op = "remove_char"
    /\ lastOp.ret

OnlyAddCharCalls == \A i \in 1..Len(hist) : hist[i].op = "add_char"

(* C3: after k <= len(W) add_char calls on a fresh WordState for W the     *)
(* cursor is k, every call returned true, and position i < k is Correct    *)
(* exactly when the i-th typed character equals the i-th code point of W,  *)
(* Incorrect otherwise.                                                    *)
C3_AddCharMarksByComparison ==
    (OnlyAddCharCalls /\ Len(hist) <= chars_count(ws.target)) =>
        /\ ws.cursor_pos = Len(hist)
        /\ \A i \in 1..Len(hist) :
              /\ hist[i].ret = TRUE
              /\ ws.char_states[i] =
                    IF hist[i].ch = ws.target[i] THEN "Correct" ELSE "Incorrect"

(* C3's case: "Aa" typed as "aa": the first position differs only in case  *)
(* and is Incorrect, the second is Correct.                                *)
C3_Witness ==
    /\ OnlyAddCharCalls
    /\ ws.target = <<"A", "a">>
    /\ Len(hist) = 2
    /\ hist[1].ch = "a"
    /\ hist[2].ch = "a"
    /\ ws.char_states = <<"Incorrect", "Correct">>

(* hist is n add_char calls followed by n remove_char calls. *)
AddsThenRemoves(n) ==
    /\ Len(hist) = 2 * n
    /\ \A i \in 1..n : hist[i].op = "add_char"
    /\ \A i \in (n + 1)..(2 * n) : hist[i].op = "remove_char"

(* C5: n add_char calls followed by n remove_char calls on a fresh         *)
(* WordState leave it equal to the fresh one: cursor 0, all Untyped.       *)
C5_RemoveCharUndoesAddChar ==
    (\E n \in 0..MaxOps : AddsThenRemoves(n)) =>
        /\ ws = WordState_new(ws.target)
        /\ ws.cursor_pos = 0
        /\ \A i \in DOMAIN ws.char_states : ws.char_states[i] = "Untyped"

(* C5's case: three letters typed into a three-letter word, one of them    *)
(* wrongly, and three removed.                                             *)
C5_Witness ==
    /\ AddsThenRemoves(3)
    /\ Len(ws.char_states) = 3
    /\ \A i \in 1..6 : hist[i].ret
    /\ hist[2].ch # ws.target[2]

----------------------------------------------------------------------------
(* Claims about TestEngine, checked under Spec. pre.engine is the engine   *)
(* before the last call, lastOp the call.                                  *)

StateRank(st) ==
    CASE st = "NotStarted" -> 0
      [] st = "InProgress" -> 1
      [] st = "Finished" -> 2

(* C1: TestState only moves NotStarted -> InProgress -> Finished: no call  *)
(* takes NotStarted to Finished, no call but reset moves the state         *)
(* backward, and reset always leaves NotStarted.                           *)
C1_StateMovesForwardUntilReset ==
    /\ ~(pre.engine.state = "NotStarted" /\ engine.state = "Finished")
    /\ lastOp.op # "reset" => StateRank(engine.state) >= StateRank(pre.engine.state)
    /\ lastOp.op = "reset" => engine.state = "NotStarted"

(* C1's case: reset called on a finished engine. *)
C1_Witness ==
    /\ lastOp.op = "reset"
    /\ pre.engine.state = "Finished"
    /\ engine.state = "NotStarted"

(* C4: add_char on a WordState whose cursor is at the word's length        *)
(* returns false and changes neither the cursor nor a CharState; the       *)
(* type_char that makes the call leaves the tracker and total_chars_typed  *)
(* as they were; no tracker's cursor is ever past its word.                *)
C4_FullWordDropsKeystroke ==
    /\ engine.current_word_state.some =>
          engine.current_word_state.val.cursor_pos
              <= chars_count(engine.current_word_state.val.target)
    /\ (/\ lastOp.op = "type_char"
        /\ pre.engine.current_word_state.some
        /\ pre.engine.current_word_state.val.cursor_pos
               >= Len(pre.engine.current_word_state.val.char_states)) =>
          LET w == pre.engine.current_word_state.val
              r == add_char(w, lastOp.ch)
          IN /\ r.ret = FALSE
             /\ r.ws.cursor_pos = w.cursor_pos
             /\ r.ws.char_states = w.char_states
             /\ engine.current_word_state = pre.engine.current_word_state
             /\ engine.total_chars_typed = pre.engine.total_chars_typed

(* C4's case: a key typed while the test runs and the two-letter word is   *)
(* already typed in full.                                                  *)
C4_Witness ==
    /\ lastOp.op = "type_char"
    /\ pre.engine.state = "InProgress"
    /\ pre.engine.current_word_state.some
    /\ pre.engine.current_word_state.val.cursor_pos = 2
    /\ Len(pre.engine.current_word_state.val.char_states) = 2
    /\ engine.total_chars_typed = 2

(* C6: type_char on a NotStarted engine starts the test (InProgress, with  *)
(* start_time the instant of the call) and then handles the character as   *)
(* an InProgress engine does: add_char on the first word's tracker, and    *)
(* total_chars_typed up by one when it was consumed.                       *)
C6_FirstKeystrokeStartsAndCounts ==
    (lastOp.op = "type_char" /\ pre.engine.state = "NotStarted") =>
        LET started == [pre.engine EXCEPT !.state = "InProgress",
                                          !.start_time = Some(now)]
        IN /\ engine.state = "InProgress"
           /\ engine.start_time = Some(now)
           /\ engine = type_char(started, lastOp.ch, now)
           /\ pre.engine.current_word_state.some =>
                 LET r == add_char(pre.engine.current_word_state.val, lastOp.ch)
                 IN /\ engine.current_word_state = Some(r.ws)
                    /\ engine.total_chars_typed =
                          pre.engine.total_chars_typed + (IF r.ret THEN 1 ELSE 0)

(* C6's case: the first key of a test, typed at a later instant than 0,    *)
(* is wrong and is the first entry of the first word's tracker.            *)
C6_Witness ==
    /\ lastOp.op = "type_char"
    /\ pre.engine.state = "NotStarted"
    /\ now > 0
    /\ engine.current_word_state.some
    /\ engine.current_word_state.val.cursor_pos = 1
    /\ engine.current_word_state.val.char_states[1] = "Incorrect"
    /\ engine.total_chars_typed = 1

(* C7: on a Finished engine type_char, backspace, next_word, start and     *)
(* finish change no field.                                                 *)
C7_FinishedIsTerminal ==
    (/\ pre.engine.state = "Finished"
     /\ lastOp.op \in {"type_char", "backspace", "next_word", "start", "finish"}) =>
        engine = pre.engine

(* C7's case: a key typed on a finished engine whose current word still    *)
(* has an untyped position.                                                *)
C7_Witness ==
    /\ pre.engine.state = "Finished"
    /\ lastOp.op = "type_char"
    /\ engine.current_word_state.some
    /\ ~is_complete(engine.current_word_state.val)
    /\ engine.current_word_state.val.cursor_pos = 1

(* The code points of the first n words. *)
RECURSIVE SumOfLengths(_, _)
SumOfLengths(words, n) ==
    IF n = 0 THEN 0 ELSE SumOfLengths(words, n - 1) + chars_count(words[n])

(* What C9 says of an engine in Words(count) mode over at least count      *)
(* words, for the calls the keyboard makes (type_char, backspace,          *)
(* next_word): the engine becomes Finished at the count-th next_word and   *)
(* at no other call, and then, if every word was complete and all Correct  *)
(* when it was left, correct_chars is the sum of the count words' lengths, *)
(* incorrect_chars is 0 and the accuracy is 100.                           *)
FinishesAtCountthAdvance ==
    /\ (/\ lastOp.op \in {"type_char", "backspace", "next_word"}
        /\ pre.engine.state # "Finished"
        /\ engine.state = "Finished") =>
          (lastOp.op = "next_word" /\ advances = engine.mode.n)
    /\ (/\ lastOp.op = "next_word"
        /\ pre.engine.state = "InProgress"
        /\ advances = engine.mode.n) =>
          engine.state = "Finished"
    /\ (/\ lastOp.op = "next_word"
        /\ pre.engine.state = "InProgress"
        /\ engine.state = "Finished"
        /\ perfect) =>
          /\ engine.correct_chars = SumOfLengths(engine.words, engine.mode.n)
          /\ engine.incorrect_chars = 0
          /\ get_metrics(engine, now).accuracy = FracInt(100)

(* C9 as claimed: in Words(count) mode with at least count words, for      *)
(* every count, the test becomes Finished exactly at the count-th          *)
(* next_word and not before, with correct_chars the sum of the word        *)
(* lengths, incorrect_chars 0 and accuracy 100 after perfect typing.       *)
C9_AsClaimed ==
    (engine.mode.kind = "Words" /\ Len(engine.words) >= engine.mode.n) =>
        FinishesAtCountthAdvance

(* C9, amended: the same for every count >= 1 (Words(0) finishes at the    *)
(* first next_word, which is not the 0-th).                                *)
C9_FinishesAtCountthAdvance ==
    (/\ engine.mode.kind = "Words"
     /\ engine.mode.n >= 1
     /\ Len(engine.words) >= engine.mode.n) =>
        FinishesAtCountthAdvance

(* C9's case: Words(2) over ["ab", "a"], started by the first keystroke,   *)
(* both words typed in full and correctly, finished by the second          *)
(* next_word with correct_chars 3.                                         *)
C9_Witness ==
    /\ engine.mode = Words(2)
    /\ engine.words = <<(<<"a", "b">>), (<<"a">>)>>
    /\ lastOp.op = "next_word"
    /\ pre.engine.state = "InProgress"
    /\ engine.state = "Finished"
    /\ advances = 2
    /\ perfect
    /\ engine.correct_chars = 3
    /\ engine.total_chars_typed = 3

(* C10: elapsed time is 0 while NotStarted; while InProgress it is         *)
(* now - start; once Finished it is end - start at every later instant,    *)
(* so elapsed_seconds and get_metrics return at each poll what they        *)
(* returned at the poll before, until reset.                               *)
C10_ElapsedFrozenOnceFinished ==
    /\ engine.state = "NotStarted" =>
          \A t \in now..MaxTime : elapsed_seconds(engine, t) = 0
    /\ engine.state = "InProgress" =>
          /\ engine.start_time.some
          /\ elapsed_seconds(engine, now) = now - engine.start_time.val
    /\ engine.state = "Finished" =>
          /\ engine.start_time.some
          /\ engine.end_time.some
          /\ \A t \in now..MaxTime :
                /\ elapsed_seconds(engine, t) =
                      engine.end_time.val - engine.start_time.val
                /\ get_metrics(engine, t) = get_metrics(engine, now)
    /\ (engine.state = "Finished" /\ pre.engine.state = "Finished") =>
          /\ elapsed_seconds(engine, now) = elapsed_seconds(pre.engine, pre.now)
          /\ get_metrics(engine, now) = get_metrics(pre.engine, pre.now)

(* C10's case: the clock advances over an engine that finished earlier,    *)
(* after a run of one tick in which a correct letter was counted.          *)
C10_Witness ==
    /\ lastOp.op = "tick"
    /\ pre.engine.state = "Finished"
    /\ engine.state = "Finished"
    /\ engine.end_time.val - engine.start_time.val = 1
    /\ now > engine.end_time.val
    /\ engine.correct_chars >= 1
    /\ get_metrics(engine, now).wpm = FracInt(12)

----------------------------------------------------------------------------
(* Claims about the application loop, checked under AppSpec.               *)

(* C8: in Time(seconds) mode a running test becomes Finished once the      *)
(* elapsed time reaches the limit even if no further key is pressed: the   *)
(* loop evaluates should_auto_finish on the turns in which the poll times  *)
(* out. So after such a turn a test is never left InProgress with its      *)
(* time limit reached.                                                     *)
C8_IdleTurnFinishesTimedTest ==
    (/\ lastOp.op = "poll_timeout"
     /\ engine.mode.kind = "Time"
     /\ pre.engine.state = "InProgress") =>
        ~(engine.state = "InProgress" /\ should_auto_finish(engine, now))

----------------------------------------------------------------------------
(* Further claims about the engine, checked under Spec.                    *)

(* C11: reset, after any sequence of calls and from any state, leaves      *)
(* state NotStarted, word index 0, the three counters 0, no start and no   *)
(* end timestamp, result_saved false and a fresh tracker (cursor 0, all    *)
(* Untyped) for the first word: the engine TestEngine::new builds from the *)
(* same mode and words. The same holds of an engine whose result was       *)
(* saved.                                                                  *)
C11_ResetRestoresNewEngine ==
    /\ lastOp.op = "reset" =>
          /\ engine.state = "NotStarted"
          /\ engine.current_word_index = 0
          /\ engine.correct_chars = 0
          /\ engine.incorrect_chars = 0
          /\ engine.total_chars_typed = 0
          /\ ~engine.start_time.some
          /\ ~engine.end_time.some
          /\ ~engine.result_saved
          /\ engine.current_word_state =
                (IF Len(engine.words) > 0
                 THEN Some([target |-> engine.words[1],
                            char_states |-> [i \in 1..Len(engine.words[1]) |-> "Untyped"],
                            cursor_pos |-> 0])
                 ELSE None)
          /\ engine = TestEngine_new(pre.engine.mode, pre.engine.words)
    /\ reset([engine EXCEPT !.result_saved = TRUE])
          = TestEngine_new(engine.mode, engine.words)

(* C11's case: reset called on a finished test that had counted typed      *)
(* characters and a completed word.                                        *)
C11_Witness ==
    /\ lastOp.op = "reset"
    /\ pre.engine.state = "Finished"
    /\ pre.engine.current_word_index > 0
    /\ pre.engine.total_chars_typed > 0
    /\ pre.engine.correct_chars > 0
    /\ pre.engine.incorrect_chars > 0
    /\ engine = TestEngine_new(engine.mode, engine.words)

(* C12: correct_chars and incorrect_chars count completed words only. No   *)
(* call other than next_word and reset changes them; type_char and         *)
(* backspace in particular leave them, and with them what get_metrics      *)
(* returns, as they were, whatever they do to the open word.               *)
C12_CountersFoldOnlyAtNextWord ==
    /\ lastOp.op \notin {"next_word", "reset", "new"} =>
          /\ engine.correct_chars = pre.engine.correct_chars
          /\ engine.incorrect_chars = pre.engine.incorrect_chars
    /\ lastOp.op \in {"type_char", "backspace"} =>
          get_metrics(engine, now) = get_metrics(pre.engine, now)
    /\ engine.current_word_state.some =>
          get_metrics([engine EXCEPT !.current_word_state =
                          Some(WordState_new(@.val.target))], now)
              = get_metrics(engine, now)

(* C12's case: with a word already folded into the counters, a keystroke   *)
(* marks a position of the open word Correct and the counters stay.        *)
C12_Witness ==
    /\ lastOp.op = "type_char"
    /\ pre.engine.state = "InProgress"
    /\ pre.engine.correct_chars > 0
    /\ engine.current_word_state.some
    /\ correct_count(engine.current_word_state.val) > 0
    /\ engine.current_word_state # pre.engine.current_word_state
    /\ engine.correct_chars = pre.engine.correct_chars

(* C13: within one run start_time is assigned once and end_time at most    *)
(* once. A call other than reset made with start_time set leaves it as it  *)
(* is, and likewise end_time; start_time is set exactly in the states      *)
(* after NotStarted and end_time exactly in Finished.                      *)
C13_TimestampsSetOncePerRun ==
    /\ (lastOp.op # "reset" /\ pre.engine.start_time.some) =>
          engine.start_time = pre.engine.start_time
    /\ (lastOp.op # "reset" /\ pre.engine.end_time.some) =>
          engine.end_time = pre.engine.end_time
    /\ engine.start_time.some <=> engine.state # "NotStarted"
    /\ engine.end_time.some <=> engine.state = "Finished"

(* C13's case: a second start() made later than the first, on a running    *)
(* test, with the start timestamp kept.                                    *)
C13_Witness ==
    /\ lastOp.op = "start"
    /\ pre.engine.state = "InProgress"
    /\ pre.engine.start_time.some
    /\ pre.now > pre.engine.start_time.val
    /\ engine.start_time = pre.engine.start_time

(* C19: a mutating call made on an invalid precondition changes no engine  *)
(* field. In particular type_char, backspace and next_word, called when    *)
(* the word sequence is exhausted (no current tracker), leave the state,   *)
(* the word index, the counters and the timestamps as they were.           *)
C19_ExhaustedCallsChangeNothing ==
    (/\ lastOp.op \in {"type_char", "backspace", "next_word"}
     /\ ~pre.engine.current_word_state.some) =>
        /\ engine.state = pre.engine.state
        /\ engine.current_word_index = pre.engine.current_word_index
        /\ engine.total_chars_typed = pre.engine.total_chars_typed
        /\ engine.correct_chars = pre.engine.correct_chars
        /\ engine.incorrect_chars = pre.engine.incorrect_chars
        /\ engine.start_time = pre.engine.start_time
        /\ engine.end_time = pre.engine.end_time

----------------------------------------------------------------------------
(* Further claims about the application loop, checked under AppSpec.       *)

(* C20: the word sequence init_test gives the engine is never exhausted    *)
(* while the test runs: in every InProgress state, in Words mode and in    *)
(* Time mode, the engine has a current word tracker.                       *)
C20_RunningTestHasTracker ==
    engine.state = "InProgress" => engine.current_word_state.some

(* C14: the final metrics of a run that reaches Finished are offered to    *)
(* update_score exactly once. The offer is made by the handler in which    *)
(* the engine becomes Finished; a key handled while the engine is Finished *)
(* makes no offer; result_saved is true only in Finished, and there it is  *)
(* true once the handler returns. A further offer needs a reset and a      *)
(* further finished run.                                                   *)
C14_ResultOfferedOncePerRun ==
    /\ engine.result_saved => engine.state = "Finished"
    /\ engine.state = "Finished" => engine.result_saved
    /\ (lastOp.op = "test_key" /\ lastOp.offered) =>
          /\ pre.engine.state = "InProgress"
          /\ ~pre.engine.result_saved
    /\ (lastOp.op = "test_key" /\ pre.engine.state = "Finished") =>
          ~lastOp.offered
    /\ (pre.engine.state # "Finished" /\ engine.state = "Finished") =>
          (lastOp.op = "test_key" /\ lastOp.offered)

(* C14's case: the result of a finished run was offered, and a further key *)
(* handled on the Test tab with the engine still Finished offers nothing   *)
(* and leaves the engine as it is.                                         *)
C14_Witness ==
    /\ lastOp.op = "test_key"
    /\ lastOp.key.code # "Enter"
    /\ pre.engine.state = "Finished"
    /\ pre.engine.result_saved
    /\ ~lastOp.offered
    /\ engine = pre.engine

(* C18: load_words never returns an empty pool. A missing file, a file     *)
(* that is not valid JSON and a file holding an empty list give the        *)
(* built-in fallback list, which is not empty; a file holding a non-empty  *)
(* list gives that list. So the engine init_test builds has a non-empty    *)
(* word sequence and, before the test starts, a tracker for its first      *)
(* word.                                                                   *)
C18_WordPoolNeverEmpty ==
    /\ FALLBACK_WORDS # <<>>
    /\ \A file \in WordFiles :
          /\ load_words(file) # <<>>
          /\ load_words(file) =
                (IF file.kind = "list" /\ file.words # <<>>
                 THEN file.words ELSE FALLBACK_WORDS)
    /\ Len(engine.words) > 0
    /\ engine.state = "NotStarted" =>
          engine.current_word_state = Some(WordState_new(engine.words[1]))

(* C18's case: a mode switch has run init_test anew, and the engine it     *)
(* built stands on the fallback list's word, with a tracker for it.        *)
C18_Witness ==
    /\ lastOp.op = "switch_mode"
    /\ engine.state = "NotStarted"
    /\ engine.words[1] \in Range(FALLBACK_WORDS)
    /\ engine.current_word_state.some
    /\ engine.current_word_state.val.target = engine.words[1]

----------------------------------------------------------------------------
(* ProfileSpec: one Profile, built by Profile::new, then offered any       *)
(* scores under any modes by update_score. hist keeps each call with its   *)
(* arguments and its result, pre the profile before the last call.         *)

(* The modes a score is offered under: the two tracked ones and, of each   *)
(* kind, one that is not.                                                  *)
ScoreModes ==
    {Time(TimeModeSeconds), Words(WordsModeCount),
     Time(TimeModeSeconds + 1), Words(WordsModeCount + 1)}

(* The scores offered: every wpm up to MaxWpm, each with two accuracies,   *)
(* so that two scores of equal wpm can differ.                             *)
Scores ==
    {BestScore_new(FracInt(w), FracInt(5 * w), FracInt(a), 0) :
        w \in 0..MaxWpm, a \in {50, 100}}

ProfileInit ==
    /\ profile = Profile_new
    /\ hist = <<>>
    /\ lastOp = NoOp
    /\ pre = [profile |-> profile]
    /\ running = TRUE
    /\ current_tab = "Test"
    /\ test_mode = Time(TimeModeSeconds)
    /\ engine = TestEngine_new(test_mode, <<>>)
    /\ ws = WordState_new(<<>>)
    /\ now = 0
    /\ advances = 0
    /\ perfect = TRUE
    /\ runs = 0

UpdateScore(mode, score) ==
    /\ Len(hist) < MaxUpdates
    /\ LET r == update_score(profile, mode, score)
           call == [op |-> "update_score", mode |-> mode, score |-> score,
                    ret |-> r.ret]
       IN /\ profile' = r.profile
          /\ hist' = Append(hist, call)
          /\ lastOp' = call
    /\ pre' = [profile |-> profile]
    /\ UNCHANGED <<engine, now, running, current_tab, test_mode, ws, runs,
                   advances, perfect>>

ProfileNext == \E mode \in ScoreModes, score \in Scores : UpdateScore(mode, score)

ProfileSpec == ProfileInit /\ [][ProfileNext]_vars

----------------------------------------------------------------------------
(* Claims about the profile's best scores, checked under ProfileSpec.      *)

(* The stored best of a tracked mode. *)
StoredBest(p, mode) ==
    IF mode = Time(TimeModeSeconds) THEN p.best_30_seconds ELSE p.best_30_words

TrackedModes == {Time(TimeModeSeconds), Words(WordsModeCount)}

(* The wpm values offered so far under a mode. *)
OfferedWpm(mode) ==
    {hist[i].score.wpm : i \in {j \in DOMAIN hist : hist[j].mode = mode}}

(* C15: update_score for a tracked mode. With no stored best the score is  *)
(* stored and the call returns true; with one, the call returns true and   *)
(* stores the score exactly when its wpm is strictly greater, and          *)
(* otherwise returns false and leaves the stored best as it is. So the     *)
(* stored wpm of a mode never decreases and, after any sequence of calls,  *)
(* is the largest wpm offered for that mode.                               *)
C15_BestIsStrictMaximum ==
    /\ (lastOp.op = "update_score" /\ lastOp.mode \in TrackedModes) =>
          LET old == StoredBest(pre.profile, lastOp.mode)
              new == StoredBest(profile, lastOp.mode)
          IN IF old.some
             THEN /\ lastOp.ret <=> FracGt(lastOp.score.wpm, old.val.wpm)
                  /\ lastOp.ret => new = Some(lastOp.score)
                  /\ ~lastOp.ret => new = old
                  /\ ~FracGt(old.val.wpm, new.val.wpm)
             ELSE lastOp.ret /\ new = Some(lastOp.score)
    /\ \A mode \in TrackedModes :
          IF OfferedWpm(mode) = {}
          THEN ~StoredBest(profile, mode).some
          ELSE /\ StoredBest(profile, mode).some
               /\ StoredBest(profile, mode).val.wpm \in OfferedWpm(mode)
               /\ \A w \in OfferedWpm(mode) :
                     ~FracGt(w, StoredBest(profile, mode).val.wpm)

(* C15's case: a stored best, then a score of equal wpm and another        *)
(* accuracy: refused, the stored best kept.                                *)
C15_Witness ==
    /\ lastOp.op = "update_score"
    /\ lastOp.mode = Time(TimeModeSeconds)
    /\ pre.profile.best_30_seconds.some
    /\ lastOp.score.wpm = pre.profile.best_30_seconds.val.wpm
    /\ lastOp.score # pre.profile.best_30_seconds.val
    /\ ~lastOp.ret
    /\ profile = pre.profile
    /\ Len(hist) = MaxUpdates

(* C16: update_score under a mode other than Time(30) and Words(30)        *)
(* returns false and leaves both stored bests as they are, whatever the    *)
(* score; and a call under Time(30) leaves the Words(30) best as it is,    *)
(* a call under Words(30) the Time(30) best.                               *)
C16_OnlyExactModesAreStored ==
    lastOp.op = "update_score" =>
        /\ lastOp.mode \notin TrackedModes =>
              (~lastOp.ret /\ profile = pre.profile)
        /\ lastOp.mode = Time(TimeModeSeconds) =>
              profile.best_30_words = pre.profile.best_30_words
        /\ lastOp.mode = Words(WordsModeCount) =>
              profile.best_30_seconds = pre.profile.best_30_seconds

(* C16's case: with both bests stored, a score under another Time mode,    *)
(* better than the stored 30 s best, is refused.                           *)
C16_Witness ==
    /\ lastOp.op = "update_score"
    /\ lastOp.mode = Time(TimeModeSeconds + 1)
    /\ pre.profile.best_30_seconds.some
    /\ pre.profile.best_30_words.some
    /\ FracGt(lastOp.score.wpm, pre.profile.best_30_seconds.val.wpm)
    /\ ~lastOp.ret
    /\ profile = pre.profile

----------------------------------------------------------------------------
(* SequenceSpec: generate_word_sequence called with any count up to        *)
(* MaxGenCount on any pool of up to MaxPool words; lastOp keeps the call   *)
(* with its arguments and the sequence it returned.                        *)

GenWords == WordPool \cup {<<"b">>}

SequenceInit ==
    /\ lastOp = NoOp
    /\ pre = [now |-> 0]
    /\ hist = <<>>
    /\ profile = Profile_new
    /\ running = TRUE
    /\ current_tab = "Test"
    /\ test_mode = Time(TimeModeSeconds)
    /\ engine = TestEngine_new(test_mode, <<>>)
    /\ ws = WordState_new(<<>>)
    /\ now = 0
    /\ advances = 0
    /\ perfect = TRUE
    /\ runs = 0

GenerateWordSequence(count, words) ==
    /\ \E sequence \in generate_word_sequence(count, words) :
          lastOp' = [op |-> "generate_word_sequence", count |-> count,
                     words |-> words, ret |-> sequence]
    /\ UNCHANGED <<engine, now, running, current_tab, test_mode, profile, ws,
                   hist, pre, runs, advances, perfect>>

SequenceNext ==
    \E count \in 0..MaxGenCount, words \in SeqsUpTo(GenWords, MaxPool) :
        GenerateWordSequence(count, words)

SequenceSpec == SequenceInit /\ [][SequenceNext]_vars

----------------------------------------------------------------------------
(* Claims about the word generator, checked under SequenceSpec.            *)

(* C17: generate_word_sequence(count, pool) on a non-empty pool returns    *)
(* exactly count words, each a word of the pool, and every word of the     *)
(* pool can come out at every position; on an empty pool it returns the    *)
(* empty sequence for every count.                                         *)
C17_SequenceOfCountPoolWords ==
    lastOp.op = "generate_word_sequence" =>
        /\ lastOp.words # <<>> =>
              /\ Len(lastOp.ret) = lastOp.count
              /\ \A i \in 1..Len(lastOp.ret) : lastOp.ret[i] \in Range(lastOp.words)
        /\ lastOp.words = <<>> => lastOp.ret = <<>>
        /\ \A i \in 1..lastOp.count : \A w \in Range(lastOp.words) :
              \E sequence \in generate_word_sequence(lastOp.count, lastOp.words) :
                  sequence[i] = w

(* C17's case: MaxGenCount words asked of a pool of two different words,   *)
(* and a sequence with a repeat and with both words came back.             *)
C17_Witness ==
    /\ lastOp.op = "generate_word_sequence"
    /\ lastOp.count = MaxGenCount
    /\ Cardinality(Range(lastOp.words)) = 2
    /\ Len(lastOp.ret) = MaxGenCount
    /\ lastOp.ret[1] = lastOp.ret[2]
    /\ lastOp.ret[1] # lastOp.ret[MaxGenCount]

----------------------------------------------------------------------------
(* MetricsSpec: TestMetrics::calculate called with any counts up to        *)
(* MaxChars and any elapsed time from -1 to MaxElapsed seconds; lastOp     *)
(* keeps the call with its arguments and the metrics it returned.          *)

MetricsInit == SequenceInit

Calculate(correct_chars, incorrect_chars, elapsed) ==
    /\ lastOp' = [op |-> "calculate",
                  correct_chars |-> correct_chars,
                  incorrect_chars |-> incorrect_chars,
                  elapsed |-> elapsed,
                  ret |-> TestMetrics_calculate(correct_chars, incorrect_chars, elapsed)]
    /\ UNCHANGED <<engine, now, running, current_tab, test_mode, profile, ws,
                   hist, pre, runs, advances, perfect>>

MetricsNext ==
    \E correct_chars \in 0..MaxChars, incorrect_chars \in 0..MaxChars,
       elapsed \in (0 - 1)..MaxElapsed :
        Calculate(correct_chars, incorrect_chars, elapsed)

MetricsSpec == MetricsInit /\ [][MetricsNext]_vars

----------------------------------------------------------------------------
(* Claims about the metrics, checked under MetricsSpec.                    *)

(* C21: wpm and cpm are 0 when the elapsed seconds are <= 0 and otherwise  *)
(* wpm = (chars / 5) / (seconds / 60) and cpm = chars / (seconds / 60),    *)
(* so wpm = cpm / 5; the accuracy is 100 when correct + incorrect is 0 and *)
(* 100 * correct / total otherwise, and always lies between 0 and 100.     *)
(* The equations are stated on the fractions by cross-multiplication.      *)
C21_MetricGuardsAndFormulas ==
    lastOp.op = "calculate" =>
        LET chars == lastOp.correct_chars
            total == lastOp.correct_chars + lastOp.incorrect_chars
            secs == lastOp.elapsed
            m == lastOp.ret
        IN /\ m.wpm.den > 0 /\ m.cpm.den > 0 /\ m.accuracy.den > 0
           /\ secs <= 0 => (m.wpm = FracInt(0) /\ m.cpm = FracInt(0))
           /\ secs > 0 =>
                 /\ m.wpm.num * 5 * secs = chars * 60 * m.wpm.den
                 /\ m.cpm.num * secs = chars * 60 * m.cpm.den
           /\ m.wpm.num * 5 * m.cpm.den = m.cpm.num * m.wpm.den
           /\ total = 0 => m.accuracy = FracInt(100)
           /\ total > 0 => m.accuracy.num * total = 100 * chars * m.accuracy.den
           /\ m.accuracy.num >= 0
           /\ m.accuracy.num <= 100 * m.accuracy.den
           /\ m.wpm = calculate_wpm(chars, secs)
           /\ m.cpm = calculate_cpm(chars, secs)
           /\ m.accuracy = calculate_accuracy(chars, total)

(* C21's case: metrics of a positive elapsed time with both correct and    *)
(* incorrect characters, the accuracy strictly between 0 and 100, and the  *)
(* wpm a fifth of a non-zero cpm.                                          *)
C21_Witness ==
    /\ lastOp.op = "calculate"
    /\ lastOp.elapsed = MaxElapsed
    /\ lastOp.correct_chars = MaxChars
    /\ lastOp.incorrect_chars > 0
    /\ lastOp.ret.cpm = Frac(MaxChars * 60, MaxElapsed)
    /\ lastOp.ret.wpm = Frac(MaxChars * 12, MaxElapsed)
    /\ FracGt(lastOp.ret.accuracy, FracInt(0))
    /\ FracGt(FracInt(100), lastOp.ret.accuracy)

----------------------------------------------------------------------------
(* Further claims about the application loop, checked under AppSpec.       *)

(* C22: a mode switch ('t': set_time_mode, 'w': set_words_mode) builds the *)
(* engine anew, whatever state the previous one was in: NotStarted, word   *)
(* index 0, counters 0, no timestamps, result_saved false, the mode just   *)
(* selected and a word sequence of that mode's length. Nothing but a mode  *)
(* switch changes the engine's mode.                                       *)
C22_ModeSwitchReinitializes ==
    /\ lastOp.op = "switch_mode" =>
          /\ test_mode = (IF lastOp.ch = "t" THEN Time(TimeModeSeconds)
                                             ELSE Words(WordsModeCount))
          /\ engine.mode = test_mode
          /\ engine.state = "NotStarted"
          /\ engine.current_word_index = 0
          /\ engine.total_chars_typed = 0
          /\ engine.correct_chars = 0
          /\ engine.incorrect_chars = 0
          /\ ~engine.start_time.some
          /\ ~engine.end_time.some
          /\ ~engine.result_saved
          /\ engine = TestEngine_new(test_mode, engine.words)
          /\ Len(engine.words) = (IF lastOp.ch = "t" THEN TimeModeWordCount
                                                     ELSE WordsModeCount)
    /\ lastOp.op # "switch_mode" => engine.mode = pre.engine.mode
    /\ engine.mode = test_mode

(* C22's case: with a timed test finished and its result saved, 'w' is     *)
(* pressed on the Options tab, and a fresh engine in the words mode        *)
(* replaces it.                                                            *)
C22_Witness ==
    /\ lastOp.op = "switch_mode"
    /\ lastOp.ch = "w"
    /\ pre.engine.mode = Time(TimeModeSeconds)
    /\ pre.engine.state = "Finished"
    /\ pre.engine.result_saved
    /\ pre.engine.total_chars_typed > 0
    /\ engine.mode = Words(WordsModeCount)
    /\ engine.state = "NotStarted"

----------------------------------------------------------------------------
(* Further claims about the engine, checked under Spec.                    *)

(* C23: backspace, next_word and finish called on a NotStarted engine      *)
(* change no field of it: the test is not started, no timestamp is         *)
(* recorded, the word index, the tracker and the counters stay.            *)
C23_NotStartedIgnoresOtherCalls ==
    (/\ lastOp.op \in {"backspace", "next_word", "finish"}
     /\ pre.engine.state = "NotStarted") =>
        /\ engine.state = "NotStarted"
        /\ ~engine.start_time.some
        /\ ~engine.end_time.some
        /\ engine.current_word_index = pre.engine.current_word_index
        /\ engine.current_word_state = pre.engine.current_word_state
        /\ engine.total_chars_typed = pre.engine.total_chars_typed
        /\ engine.correct_chars = pre.engine.correct_chars
        /\ engine.incorrect_chars = pre.engine.incorrect_chars
        /\ engine = pre.engine

(* C23's case: next_word called before the test has started, on an engine  *)
(* that has words, at a time that is past a timed test's limit.            *)
C23_Witness ==
    /\ lastOp.op = "next_word"
    /\ pre.engine.state = "NotStarted"
    /\ Len(pre.engine.words) = MaxWords
    /\ pre.engine.mode.kind = "Time"
    /\ now >= pre.engine.mode.n
    /\ engine = pre.engine

(* C24: next_word on a running test adds the tracker's number of Correct   *)
(* entries to correct_chars and its number of Incorrect entries to         *)
(* incorrect_chars, so that their sum grows by the tracker's cursor        *)
(* position; it raises current_word_index by exactly one; and it installs  *)
(* a fresh tracker for the word at the new index, or none if that index is *)
(* past the last word.                                                     *)
C24_NextWordFoldsAndAdvances ==
    (lastOp.op = "next_word" /\ pre.engine.state = "InProgress") =>
        LET old == pre.engine.current_word_state
            Count(st) == IF old.some
                         THEN Cardinality({i \in DOMAIN old.val.char_states :
                                              old.val.char_states[i] = st})
                         ELSE 0
        IN /\ engine.correct_chars = pre.engine.correct_chars + Count("Correct")
           /\ engine.incorrect_chars = pre.engine.incorrect_chars + Count("Incorrect")
           /\ old.some =>
                 (engine.correct_chars + engine.incorrect_chars
                    = pre.engine.correct_chars + pre.engine.incorrect_chars
                        + old.val.cursor_pos)
           /\ engine.current_word_index = pre.engine.current_word_index + 1
           /\ engine.current_word_state =
                 (IF engine.current_word_index < Len(engine.words)
                  THEN Some([target |-> engine.words[engine.current_word_index + 1],
                             char_states |->
                                 [i \in 1..Len(engine.words[engine.current_word_index + 1])
                                     |-> "Untyped"],
                             cursor_pos |-> 0])
                  ELSE None)
           /\ engine.total_chars_typed = pre.engine.total_chars_typed

(* C24's case: next_word leaves a word of two characters of which one was  *)
(* typed, wrongly, and a next word exists.                                 *)
C24_Witness ==
    /\ lastOp.op = "next_word"
    /\ pre.engine.state = "InProgress"
    /\ pre.engine.current_word_state.some
    /\ Len(pre.engine.current_word_state.val.char_states) = 2
    /\ pre.engine.current_word_state.val.cursor_pos = 1
    /\ pre.engine.current_word_state.val.char_states[1] = "Incorrect"
    /\ engine.incorrect_chars = pre.engine.incorrect_chars + 1
    /\ engine.correct_chars = pre.engine.correct_chars
    /\ engine.current_word_state.some
    /\ engine.state = "InProgress"

(* C26: the current tracker belongs to the current word. In every          *)
(* reachable engine state the tracker is present exactly when              *)
(* current_word_index < number of words; when present its target is        *)
(* words[current_word_index] and it has one CharState per code point of    *)
(* that word. A call that moves the index installs a fresh tracker.        *)
C26_TrackerBelongsToCurrentWord ==
    /\ engine.current_word_state.some <=>
          engine.current_word_index < Len(engine.words)
    /\ engine.current_word_state.some =>
          LET w == engine.current_word_state.val IN
          /\ w.target = engine.words[engine.current_word_index + 1]
          /\ Len(w.char_states) = Len(w.target)
          /\ WordStateConsistent(w)
    /\ (/\ engine.current_word_index # pre.engine.current_word_index
        /\ engine.current_word_state.some) =>
          /\ engine.current_word_state.val.cursor_pos = 0
          /\ \A i \in DOMAIN engine.current_word_state.val.char_states :
                engine.current_word_state.val.char_states[i] = "Untyped"

(* C26's case: next_word has left a word with typed characters for a       *)
(* different word, whose tracker is fresh.                                 *)
C26_Witness ==
    /\ lastOp.op = "next_word"
    /\ pre.engine.current_word_state.some
    /\ pre.engine.current_word_state.val.cursor_pos > 0
    /\ engine.current_word_index = 1
    /\ engine.current_word_state.some
    /\ engine.current_word_state.val.target = engine.words[2]
    /\ engine.words[2] # engine.words[1]
    /\ engine.current_word_state.val.cursor_pos = 0

(* C27: total_chars_typed counts the consumed keystrokes. type_char raises *)
(* it by one when add_char consumed the character, correct or not, and     *)
(* leaves it otherwise; backspace and next_word leave it; no call but      *)
(* reset lowers it, and reset makes it 0.                                  *)
C27_TotalTypedCountsConsumedKeys ==
    /\ lastOp.op = "type_char" =>
          LET old == pre.engine.current_word_state
              consumed == /\ pre.engine.state # "Finished"
                          /\ old.some
                          /\ old.val.cursor_pos < Len(old.val.target)
          IN engine.total_chars_typed =
                pre.engine.total_chars_typed + (IF consumed THEN 1 ELSE 0)
    /\ lastOp.op \in {"backspace", "next_word", "start", "finish", "tick"} =>
          engine.total_chars_typed = pre.engine.total_chars_typed
    /\ lastOp.op = "reset" => engine.total_chars_typed = 0
    /\ lastOp.op \notin {"reset", "new"} =>
          engine.total_chars_typed >= pre.engine.total_chars_typed

(* C27's case: a backspace that removes a typed character and leaves the   *)
(* keystroke counter where it was, above the tracker's cursor.             *)
C27_Witness ==
    /\ lastOp.op = "backspace"
    /\ pre.engine.state = "InProgress"
    /\ pre.engine.current_word_state.some
    /\ pre.engine.current_word_state.val.cursor_pos = 1
    /\ engine.current_word_state.val.cursor_pos = 0
    /\ engine.total_chars_typed = pre.engine.total_chars_typed
    /\ engine.total_chars_typed = MaxTyped

(* C28: the word sequence and the mode are read-only after construction.   *)
(* No call (start, finish, type_char, backspace, next_word, reset) changes *)
(* words or mode, and get_metrics and should_auto_finish change nothing;   *)
(* reset keeps the same words in the same order.                           *)
C28_WordsAndModeReadOnly ==
    /\ engine.words = pre.engine.words
    /\ engine.mode = pre.engine.mode
    /\ lastOp.op = "reset" =>
          /\ Len(engine.words) = Len(pre.engine.words)
          /\ \A i \in 1..Len(engine.words) : engine.words[i] = pre.engine.words[i]

(* C28's case: reset called on a test that had advanced over a sequence of *)
(* two different words, which it keeps in their order.                     *)
C28_Witness ==
    /\ lastOp.op = "reset"
    /\ pre.engine.current_word_index > 0
    /\ Len(engine.words) = 2
    /\ engine.words[1] # engine.words[2]
    /\ engine.words = pre.engine.words
    /\ engine.current_word_state.val.target = pre.engine.words[1]

(* C30: the timestamps track the state. In every reachable engine state    *)
(* start_time is present exactly in InProgress and Finished, end_time      *)
(* exactly in Finished, and with both present end_time is not earlier than *)
(* start_time; the elapsed time is never negative.                         *)
C30_TimestampsTrackState ==
    /\ engine.start_time.some <=> engine.state \in {"InProgress", "Finished"}
    /\ engine.end_time.some <=> engine.state = "Finished"
    /\ (engine.start_time.some /\ engine.end_time.some) =>
          engine.end_time.val >= engine.start_time.val
    /\ engine.start_time.some => engine.start_time.val <= now
    /\ elapsed_seconds(engine, now) >= 0

(* C30's case: a test started after the clock had advanced and finished    *)
(* later still.                                                            *)
C30_Witness ==
    /\ engine.state = "Finished"
    /\ engine.start_time.some
    /\ engine.end_time.some
    /\ engine.start_time.val > 0
    /\ engine.end_time.val > engine.start_time.val
    /\ elapsed_seconds(engine, now) = engine.end_time.val - engine.start_time.val

----------------------------------------------------------------------------
(* Further claims about WordState, checked under WordSpec.                 *)

(* The positions whose CharState the last call changed. *)
ChangedPositions ==
    {i \in DOMAIN ws.char_states : ws.char_states[i] # pre.ws.char_states[i]}

(* C29: remove_char with the cursor at 0 changes nothing and returns       *)
(* false; otherwise it moves the cursor back by one and sets exactly the   *)
(* vacated position to Untyped. One add_char or remove_char changes at     *)
(* most one CharState and moves the cursor by at most one; add_char only   *)
(* marks (Untyped to Correct or Incorrect), remove_char only resets (to    *)
(* Untyped), never both in one call.                                       *)
C29_OneStepOnePosition ==
    /\ lastOp.op = "remove_char" =>
          IF pre.ws.cursor_pos = 0
          THEN ~lastOp.ret /\ ws = pre.ws
          ELSE /\ lastOp.ret
               /\ ws.cursor_pos = pre.ws.cursor_pos - 1
               /\ ws.char_states[pre.ws.cursor_pos] = "Untyped"
               /\ ChangedPositions = {pre.ws.cursor_pos}
               /\ ws.target = pre.ws.target
    /\ lastOp.op \in {"add_char", "remove_char"} =>
          /\ DOMAIN ws.char_states = DOMAIN pre.ws.char_states
          /\ Cardinality(ChangedPositions) <= 1
          /\ ws.cursor_pos - pre.ws.cursor_pos \in {0 - 1, 0, 1}
          /\ \A i \in ChangedPositions :
                IF lastOp.op = "add_char"
                THEN /\ pre.ws.char_states[i] = "Untyped"
                     /\ ws.char_states[i] \in {"Correct", "Incorrect"}
                     /\ i = ws.cursor_pos
                ELSE /\ ws.char_states[i] = "Untyped"
                     /\ i = ws.cursor_pos + 1

(* C29's case: remove_char with two positions typed: the second is reset,  *)
(* the first keeps its mark.                                               *)
C29_Witness ==
    /\ lastOp.op = "remove_char"
    /\ lastOp.ret
    /\ pre.ws.cursor_pos = 2
    /\ ws.cursor_pos = 1
    /\ ws.char_states[1] = "Incorrect"
    /\ pre.ws.char_states[2] = "Correct"
    /\ ws.char_states[2] = "Untyped"

----------------------------------------------------------------------------
(* C25, checked under AppSpec.                                             *)

(* should_auto_finish is elapsed >= seconds in a Time mode and             *)
(* current_word_index >= count in a Words mode.                            *)
AutoFinishPredicate ==
    should_auto_finish(engine, now) <=>
        (IF engine.mode.kind = "Time"
         THEN elapsed_seconds(engine, now) >= engine.mode.n
         ELSE engine.current_word_index >= engine.mode.n)

(* The engine is left running with the predicate true. *)
LeftRunningPastFinish ==
    engine.state = "InProgress" /\ should_auto_finish(engine, now)

----------------------------------------------------------------------------
(* C31, checked under Spec.                                                *)

(* C31: in every reachable engine state total_chars_typed is at least      *)
(* correct_chars + incorrect_chars + the cursor position of the current    *)
(* tracker (0 if there is none): the folded totals never exceed the        *)
(* keystrokes consumed.                                                    *)
C31_FoldedTotalsWithinKeystrokes ==
    engine.total_chars_typed >=
        engine.correct_chars + engine.incorrect_chars
            + (IF engine.current_word_state.some
               THEN engine.current_word_state.val.cursor_pos
               ELSE 0)

(* C31's case: a word folded with an incorrect character after a          *)
(* keystroke taken back by backspace, one more typed in the open word, so  *)
(* that the keystrokes exceed the totals.                                  *)
C31_Witness ==
    /\ engine.state = "InProgress"
    /\ engine.incorrect_chars > 0
    /\ engine.current_word_state.some
    /\ engine.current_word_state.val.cursor_pos > 0
    /\ engine.total_chars_typed >
          engine.correct_chars + engine.incorrect_chars
              + engine.current_word_state.val.cursor_pos

----------------------------------------------------------------------------
(* C32, C33 and C34, checked under AppSpec.                                *)

(* C32: an engine that init_test built for the Words(n) mode has exactly n *)
(* words; over any sequence of key events its current_word_index never     *)
(* exceeds n, and it is Finished exactly when current_word_index = n.      *)
C32_WordsTestEndsAtLastWord ==
    engine.mode.kind = "Words" =>
        /\ Len(engine.words) = engine.mode.n
        /\ engine.current_word_index <= engine.mode.n
        /\ engine.state = "Finished" <=> engine.current_word_index = engine.mode.n

(* C32's case: a Words test finished by the Space after its last word, and *)
(* a further Space handled in that state.                                  *)
C32_Witness ==
    /\ engine.mode = Words(WordsModeCount)
    /\ lastOp.op = "test_key"
    /\ lastOp.key = [code |-> "Char", ch |-> " "]
    /\ pre.engine.state = "Finished"
    /\ engine.state = "Finished"
    /\ engine.current_word_index = WordsModeCount
    /\ engine.total_chars_typed > 0

(* C33: the engine's mode is the application's test_mode, so the score of  *)
(* a finished run is compared with the best of the mode that was played:   *)
(* an offer changes at most that mode's best, a new best is the score of   *)
(* the run just finished, and without an offer the profile stays.          *)
C33_ScoreGoesToModePlayed ==
    /\ engine.mode = test_mode
    /\ lastOp.op \notin {"new", "test_key"} => profile = pre.profile
    /\ lastOp.op = "test_key" =>
          LET played == pre.engine.mode IN
          /\ played = test_mode
          /\ ~lastOp.offered => (~lastOp.ret /\ profile = pre.profile)
          /\ played = Time(TimeModeSeconds) =>
                profile.best_30_words = pre.profile.best_30_words
          /\ played = Words(WordsModeCount) =>
                profile.best_30_seconds = pre.profile.best_30_seconds
          /\ (lastOp.offered /\ ~lastOp.ret) => profile = pre.profile
          /\ (lastOp.offered /\ lastOp.ret) =>
                /\ StoredBest(profile, played).some
                /\ StoredBest(profile, played).val.timestamp = now
                /\ StoredBest(profile, played) # StoredBest(pre.profile, played)
          /\ (lastOp.offered /\ lastOp.ret /\ lastOp.key.code # "Enter") =>
                LET m == get_metrics(engine, now) IN
                StoredBest(profile, played) =
                    Some(BestScore_new(m.wpm, m.cpm, m.accuracy, now))

(* C33's case: a Words test finishes in a session whose profile holds a    *)
(* Time best; its score becomes the Words best and the Time best stays.    *)
C33_Witness ==
    /\ lastOp.op = "test_key"
    /\ lastOp.offered
    /\ lastOp.ret
    /\ pre.engine.mode = Words(WordsModeCount)
    /\ pre.profile.best_30_seconds.some
    /\ ~pre.profile.best_30_words.some
    /\ profile.best_30_words.some
    /\ profile.best_30_seconds = pre.profile.best_30_seconds
    /\ engine.state = "Finished"

(* C34: in the handling of Enter on the Test tab the auto-finish check and *)
(* the hand-off of the result run before the reset. Enter pressed on a     *)
(* running test whose predicate is true (a timed test past its limit)      *)
(* finishes the run, offers its score, and then resets; in every other     *)
(* state Enter offers nothing. After the handler the engine is NotStarted  *)
(* with result_saved false: the engine reset gives.                        *)
C34_EnterSavesBeforeReset ==
    (lastOp.op = "test_key" /\ lastOp.key.code = "Enter") =>
        LET due == pre.engine.state = "InProgress" /\ should_auto_finish(pre.engine, now)
            finished == finish(pre.engine, now)
            m == get_metrics(finished, now)
            score == BestScore_new(m.wpm, m.cpm, m.accuracy, now)
            u == update_score(pre.profile, test_mode, score)
        IN /\ engine.state = "NotStarted"
           /\ ~engine.result_saved
           /\ engine = reset(pre.engine)
           /\ lastOp.offered <=> due
           /\ due => (profile = u.profile /\ lastOp.ret = u.ret)
           /\ ~due => (profile = pre.profile /\ ~lastOp.ret)

(* C34's case: Enter on a running timed test past its limit, with a        *)
(* correct character counted: the score, of a wpm above 0, becomes the     *)
(* Time best, and the engine is reset.                                     *)
C34_Witness ==
    /\ lastOp.op = "test_key"
    /\ lastOp.key.code = "Enter"
    /\ pre.engine.state = "InProgress"
    /\ pre.engine.mode = Time(TimeModeSeconds)
    /\ pre.engine.correct_chars > 0
    /\ should_auto_finish(pre.engine, now)
    /\ lastOp.offered
    /\ lastOp.ret
    /\ profile.best_30_seconds.some
    /\ profile.best_30_seconds.val.timestamp = now
    /\ FracGt(profile.best_30_seconds.val.wpm, FracInt(0))
    /\ profile # pre.profile
    /\ engine.state = "NotStarted"

====
